---- MODULE Spec2Model ----
(***************************************************************************)
(* Model of mixfriend.py: the encoder of Logic Pro X Channel EQ presets    *)
(* (build_preset, pack_band, HEADER, FOOTER) and the generation loop of    *)
(* main / generate_preset that writes one .pst file per device.            *)
(*                                                                         *)
(* Python values are tagged records:                                       *)
(*   [t |-> "float", s, e, hi, lo]  an IEEE-754 binary64: sign, biased     *)
(*                                  exponent, the top 23 and the low 29    *)
(*                                  bits of the 52-bit fraction            *)
(*   [t |-> "int", n]   [t |-> "bool", b]   [t |-> "str", cs]   [t |-> "None"] *)
(*   [t |-> "int", neg, digits]     an int beyond 32 bits: its sign and    *)
(*                                  decimal digits                         *)
(* A dict is a function whose DOMAIN is its set of keys.  Bytes objects    *)
(* are sequences of 0..255.  The assert statement is modelled as executed  *)
(* (the interpreter's default, without -O).                                *)
(***************************************************************************)
EXTENDS Integers, Sequences, FiniteSets, TLC

VARIABLES
    targets,      \* main: the list of device dicts the loop iterates over
    idx,          \* main: position of the loop in targets (1-based)
    pc,           \* where the process is: "build", "filename", "open", "write",
                  \* "report", "done" (normal exit) or "crashed" (uncaught exception)
    preset_data,  \* generate_preset: the bytes build_preset returned
    output_path,  \* generate_preset: the path of the file, relative to output_dir
    exc,          \* the uncaught exception that ended the process, if any:
                  \* its type, args and the function of its innermost frame
    fs            \* the files of the output directory: path -> content

vars == <<targets, idx, pc, preset_data, output_path, exc, fs>>

(***************************************************************************)
(* Bounds of the model.                                                    *)
(***************************************************************************)
\* longest band list handed to build_preset (8 is the valid length)
MaxBands == 9
\* longest batch of devices main iterates over
MaxDevices == 2

(***************************************************************************)
(* Python values.                                                          *)
(***************************************************************************)
PyFloat(s, e, hi, lo) == [t |-> "float", s |-> s, e |-> e, hi |-> hi, lo |-> lo]
PyInt(n) == [t |-> "int", n |-> n]
PyBool(b) == [t |-> "bool", b |-> b]
PyStr(cs) == [t |-> "str", cs |-> cs]
PyNone == [t |-> "None"]

Pow2(k) == 2 ^ k

\* float literals that occur in the source or in the inputs, as binary64
F_0_0 == PyFloat(0, 0, 0, 0)
F_1_0 == PyFloat(0, 1023, 0, 0)
F_2_0 == PyFloat(0, 1024, 0, 0)
F_3_0 == PyFloat(0, 1024, 4194304, 0)
F_m3_0 == PyFloat(1, 1024, 4194304, 0)
F_0_71 == PyFloat(0, 1022, 3523215, 193273528)
F_0_1 == PyFloat(0, 1019, 5033164, 429496730)
F_1e39 == PyFloat(0, 1152, 3937343, 345786909)
F_1em40 == PyFloat(0, 890, 745777, 125261724)
F_tie_odd == PyFloat(0, 1023, 1, 268435456)
F_max_round == PyFloat(0, 1150, 8388607, 268435456)
F_nan == PyFloat(0, 2047, 4194304, 0)
F_inf == PyFloat(0, 2047, 0, 0)

\* variant: the default q is 1.0
DEFAULT_Q_One == F_1_0

DEFAULT_Q == F_0_71

(***************************************************************************)
(* float(x): the conversions build_preset applies to q, frequency, gain.   *)
(* Result: [ok |-> TRUE, v |-> binary64] or [ok |-> FALSE, exc |-> ...].   *)
(***************************************************************************)
\* a str whose characters the model never takes apart (a message, a key)
Text(s) == [t |-> "str", text |-> s]

\* an exception: its class, its args (a tuple of Python values) and the
\* function whose frame raised it, "" until a frame of the program claims it
Raise(type, args) == [ok |-> FALSE, exc |-> [type |-> type, args |-> args, where |-> ""]]

\* a result as it leaves the frame of function f: an exception raised by a
\* builtin called there has f as the innermost frame of its traceback
Frame(r, f) ==
    IF r.ok \/ r.exc.where # "" THEN r
    ELSE [ok |-> FALSE, exc |-> [type |-> r.exc.type, args |-> r.exc.args, where |-> f]]

\* an int too large for the model's integers: its sign and decimal digits
PyBigInt(neg, digits) == [t |-> "int", neg |-> neg, digits |-> digits]

\* the position of the highest set bit of n < 2^31 (0 for n < 2)
Log2Floor(n) ==
    IF n < 2 THEN 0 ELSE CHOOSE p \in 1..30 : Pow2(p) <= n /\ n \div 2 < Pow2(p)

\* float(n) for an int of magnitude below 2^31: exact, n has at most 31 bits
IntToFloat(n) ==
    LET a == IF n < 0 THEN -n ELSE n
        p == Log2Floor(a)
        frac == a - Pow2(p)
    IN  IF n = 0 THEN F_0_0
        ELSE IF p <= 23
        THEN PyFloat(IF n < 0 THEN 1 ELSE 0, 1023 + p, frac * Pow2(23 - p), 0)
        ELSE PyFloat(IF n < 0 THEN 1 ELSE 0, 1023 + p,
                     frac \div Pow2(p - 23), (frac % Pow2(p - 23)) * Pow2(52 - p))

DigitValue(c) ==
    CASE c = "0" -> 0 [] c = "1" -> 1 [] c = "2" -> 2 [] c = "3" -> 3 [] c = "4" -> 4
      [] c = "5" -> 5 [] c = "6" -> 6 [] c = "7" -> 7 [] c = "8" -> 8 [] c = "9" -> 9
      [] OTHER -> -1

IsDigit(c) == DigitValue(c) >= 0

(***************************************************************************)
(* Natural numbers of any size, as the correctly rounded conversions of    *)
(* float() need them: little-endian sequences of limbs in base 2^15, no    *)
(* leading zero limb, <<>> being 0.                                        *)
(***************************************************************************)
Limb == Pow2(15)

\* limb i of x, 0 beyond its length
LimbAt(x, i) == IF i <= Len(x) THEN x[i] ELSE 0

\* x without its leading zero limbs
BigNorm(x) ==
    SubSeq(x, 1, CHOOSE n \in 0..Len(x) : /\ n = 0 \/ x[n] # 0
                                          /\ \A j \in (n + 1)..Len(x) : x[j] = 0)

\* the limb of t and the carry out of it
LimbOf(t) == [limbs |-> <<t % Limb>>, carry |-> t \div Limb]

\* the limbs of first followed by those of rest, which took the carry of first
LinJoined(first, rest) == [limbs |-> first.limbs \o rest.limbs, carry |-> rest.carry]

RECURSIVE LinLimbs(_, _, _, _, _, _, _)
\* the limbs lo..hi after those of first
LinAfter(first, x, m, y, s, lo, hi) ==
    LinJoined(first, LinLimbs(x, m, y, s, lo, hi, first.carry))

\* the limbs lo..hi of x * m + y * s and the carry out of them, for the carry
\* into limb lo: the lower half of the limbs, then the others
LinLimbs(x, m, y, s, lo, hi, carry) ==
    IF lo = hi THEN LimbOf(LimbAt(x, lo) * m + LimbAt(y, lo) * s + carry)
    ELSE LinAfter(LinLimbs(x, m, y, s, lo, (lo + hi) \div 2, carry),
                  x, m, y, s, (lo + hi) \div 2 + 1, hi)

\* the limbs of r, and its carry as one more limb
WithCarry(r) == IF r.carry = 0 THEN r.limbs ELSE r.limbs \o <<r.carry>>

\* x * m + y * s, for 0 < m <= 2^15 and s in {-1, 0, 1}, when that is >= 0
BigLinear(x, m, y, s) ==
    IF x = <<>> /\ y = <<>> THEN <<>>
    ELSE BigNorm(WithCarry(LinLimbs(x, m, y, s, 1,
                                    IF Len(x) >= Len(y) THEN Len(x) ELSE Len(y), 0)))

\* x * m, for 0 < m <= 2^15
BigMulSmall(x, m) == BigLinear(x, m, <<>>, 0)

BigAdd(x, y) == BigLinear(x, 1, y, 1)

\* x - y, for x >= y
BigSub(x, y) == BigLinear(x, 1, y, -1)

RECURSIVE SmallValue(_, _, _)
\* the number written by the decimal digits ds[lo..hi], at most 9 of them
SmallValue(ds, lo, hi) ==
    IF lo > hi THEN 0
    ELSE IF lo = hi THEN DigitValue(ds[lo])
    ELSE SmallValue(ds, lo, (lo + hi) \div 2) * 10 ^ (hi - (lo + hi) \div 2)
           + SmallValue(ds, (lo + hi) \div 2 + 1, hi)

RECURSIVE BigTimesPow10(_, _)
\* x * 10^k
BigTimesPow10(x, k) ==
    IF x = <<>> \/ k = 0 THEN x
    ELSE IF k <= 4 THEN BigMulSmall(x, 10 ^ k)
    ELSE BigTimesPow10(BigTimesPow10(x, k \div 2), k - k \div 2)

RECURSIVE DigitsIn(_, _, _)
\* the number written by the decimal digits ds[lo..hi]
DigitsIn(ds, lo, hi) ==
    IF hi - lo < 4 THEN BigNorm(<<SmallValue(ds, lo, hi)>>)
    ELSE BigAdd(BigTimesPow10(DigitsIn(ds, lo, (lo + hi) \div 2), hi - (lo + hi) \div 2),
                DigitsIn(ds, (lo + hi) \div 2 + 1, hi))

\* the number written by the decimal digits ds
BigFromDigits(ds) == DigitsIn(ds, 1, Len(ds))

\* x and y have the same length and differ, limb i being the highest that differs
BigCmpAt(x, y, i) == IF x[i] < y[i] THEN -1 ELSE 1

\* -1, 0 or 1 as x is less than, equal to or greater than y
BigCmp(x, y) ==
    IF Len(x) < Len(y) THEN -1
    ELSE IF Len(x) > Len(y) THEN 1
    ELSE IF \A i \in 1..Len(x) : x[i] = y[i] THEN 0
    ELSE BigCmpAt(x, y, CHOOSE i \in 1..Len(x) : /\ x[i] # y[i]
                                                 /\ \A j \in (i + 1)..Len(x) : x[j] = y[j])

BigBitLen(x) == IF x = <<>> THEN 0 ELSE 15 * (Len(x) - 1) + Log2Floor(x[Len(x)]) + 1

\* x * 2^k
BigShl(x, k) ==
    IF x = <<>> THEN <<>>
    ELSE [i \in 1..(k \div 15) |-> 0] \o BigMulSmall(x, Pow2(k % 15))

RECURSIVE Carried(_, _, _, _)
RECURSIVE DivBits(_, _, _)
\* one step of the long division of r by d (r < 2d): the quotient bit and
\* the doubled remainder
DivStep(r, d) ==
    IF BigCmp(r, d) >= 0
    THEN [bits |-> <<1>>, rem2 |-> BigMulSmall(BigSub(r, d), 2)]
    ELSE [bits |-> <<0>>, rem2 |-> BigMulSmall(r, 2)]

\* the bits of first followed by those of rest, which went on from first.rem2
DivJoined(first, rest) == [bits |-> first.bits \o rest.bits, rem2 |-> rest.rem2]

\* n more quotient bits after those of first
DivAfter(first, d, n) == DivJoined(first, DivBits(first.rem2, d, n))

\* n >= 1 quotient bits of r / d by long division (r < 2d), and the doubled
\* remainder: the first half of the bits, then the others
DivBits(r, d, n) ==
    IF n = 1 THEN DivStep(r, d)
    ELSE DivAfter(DivBits(r, d, n \div 2), d, n - n \div 2)

RECURSIVE BitsValue(_, _, _)
\* the number written by the bits[lo..hi], lo <= hi
BitsValue(bits, lo, hi) ==
    IF lo = hi THEN bits[lo]
    ELSE BitsValue(bits, lo, (lo + hi) \div 2) * Pow2(hi - (lo + hi) \div 2)
           + BitsValue(bits, (lo + hi) \div 2 + 1, hi)

\* the e with 2^e <= num / den < 2^(e + 1), given that it is e0 or e0 - 1
FloorLog2(num, den, e0) ==
    IF BigCmp(BigShl(num, IF e0 < 0 THEN -e0 ELSE 0), BigShl(den, IF e0 > 0 THEN e0 ELSE 0)) >= 0
    THEN e0 ELSE e0 - 1

\* the fields of the binary64 with exponent field e0 + lead and the 52
\* fraction bits hi, lo, each possibly one beyond its range by a carry
Carried(e0, lead, hi, lo) ==
    IF lo = Pow2(29) THEN Carried(e0, lead, hi + 1, 0)
    ELSE IF hi = Pow2(23) THEN Carried(e0, lead + 1, 0, lo)
    ELSE [e |-> e0 + lead, hi |-> hi, lo |-> lo]

\* the 53 quotient bits and the doubled remainder d of a division by t,
\* rounded to nearest, ties to even
Rounded(e0, d, t, half) ==
    Carried(e0, d.bits[1], BitsValue(d.bits, 2, 24),
            BitsValue(d.bits, 25, 53)
              + (IF half > 0 \/ (half = 0 /\ d.bits[53] = 1) THEN 1 ELSE 0))

Divided(e0, d, t) == Rounded(e0, d, t, BigCmp(d.rem2, t))

\* num / den in units of 2^-s, as a binary64 with exponent field e0 (+ 1)
Quotient(num, den, e0, s) ==
    Divided(e0,
            DivBits(BigShl(num, IF s >= 0 THEN s ELSE 0),
                    BigShl(den, 52 + (IF s >= 0 THEN 0 ELSE -s)), 53),
            BigShl(den, 52 + (IF s >= 0 THEN 0 ELSE -s)))

\* the binary64 nearest to num / den, where 2^e <= num / den < 2^(e + 1)
RoundAt(num, den, e) ==
    IF e > 1024 THEN [e |-> 2047, hi |-> 0, lo |-> 0]
    ELSE IF e < -1080 THEN [e |-> 0, hi |-> 0, lo |-> 0]
    ELSE IF e >= -1022 THEN Quotient(num, den, e + 1022, 52 - e)
    ELSE Quotient(num, den, 0, 1074)

\* the binary64 nearest to num / den (both positive), ties to even, as
\* [e, hi, lo]; e >= 2047 when the quotient rounds beyond the largest binary64
RoundRatio(num, den) ==
    RoundAt(num, den, FloorLog2(num, den, BigBitLen(num) - BigBitLen(den)))

\* float(n) for an int given by its decimal digits
\* ds without its leading zeros
StripZeros(ds) ==
    SubSeq(ds, CHOOSE i \in 1..(Len(ds) + 1) : /\ i = Len(ds) + 1 \/ ds[i] # "0"
                                               /\ \A j \in 1..(i - 1) : ds[j] = "0",
           Len(ds))

IntFromRatio(neg, r) ==
    IF r.e >= 2047
    THEN Raise("OverflowError", <<Text("int too large to convert to float")>>)
    ELSE [ok |-> TRUE, v |-> PyFloat(IF neg THEN 1 ELSE 0, r.e, r.hi, r.lo)]

BigIntToFloat(neg, digits) ==
    IF StripZeros(digits) = <<>> THEN [ok |-> TRUE, v |-> F_0_0]
    ELSE IF Len(StripZeros(digits)) > 310
    THEN Raise("OverflowError", <<Text("int too large to convert to float")>>)
    ELSE IntFromRatio(neg, RoundRatio(BigFromDigits(digits), <<1>>))

(***************************************************************************)
(* float(str): surrounding whitespace is dropped, single underscores       *)
(* between digits are allowed, then an optional sign and "inf", "infinity",*)
(* "nan" (any case) or a decimal literal with optional fraction and        *)
(* exponent, converted with correct rounding.  Characters are ASCII.       *)
(***************************************************************************)
\* the six ASCII whitespace characters; the last string holds the vertical
\* tab (character 11), which has no escape and is written as itself
IsSpace(c) == c \in {" ", "\t", "\n", "\r", "\f", ""}

\* cs from its first character that is no whitespace on
StripLeft(cs) ==
    SubSeq(cs, CHOOSE i \in 1..(Len(cs) + 1) : /\ i = Len(cs) + 1 \/ ~IsSpace(cs[i])
                                               /\ \A j \in 1..(i - 1) : IsSpace(cs[j]),
           Len(cs))

\* cs up to its last character that is no whitespace
StripRight(cs) ==
    SubSeq(cs, 1, CHOOSE n \in 0..Len(cs) : /\ n = 0 \/ ~IsSpace(cs[n])
                                            /\ \A j \in (n + 1)..Len(cs) : IsSpace(cs[j]))

\* every underscore stands between two digits
UnderscoresOk(cs) ==
    \A i \in DOMAIN cs :
        cs[i] = "_" => /\ i > 1 /\ IsDigit(cs[i - 1])
                       /\ i < Len(cs) /\ IsDigit(cs[i + 1])

NotUnderscore(c) == c # "_"

Lower(c) ==
    CASE c = "I" -> "i" [] c = "N" -> "n" [] c = "F" -> "f" [] c = "T" -> "t"
      [] c = "Y" -> "y" [] c = "A" -> "a" [] OTHER -> c

\* the number of digits of cs from position i on
DigitRun(cs, i) ==
    IF i > Len(cs) THEN 0
    ELSE CHOOSE n \in 0..(Len(cs) - i + 1) :
            /\ \A j \in i..(i + n - 1) : IsDigit(cs[j])
            /\ i + n > Len(cs) \/ ~IsDigit(cs[i + n])

\* the largest exponent that the conversion applies as written
MAX_ABS_EXP == 1100000000

\* the value of the exponent's digits ds (without leading zeros): the value
\* written when ds has at most 9 digits, MAX_ABS_EXP otherwise
Saturated(ds) ==
    IF Len(ds) > 9 THEN MAX_ABS_EXP ELSE SmallValue(ds, 1, Len(ds))

ExponentValue(ds) == Saturated(StripZeros(ds))

\* the literal ends at position end - 1 with n1 + n2 mantissa digits, n2 of
\* them after the point at fracStart - 1, and the exponent exp
DecimalParsed(cs, n1, fracStart, n2, expOk, exp, end) ==
    IF n1 + n2 >= 1 /\ expOk /\ end = Len(cs) + 1
    THEN [ok |-> TRUE,
          digits |-> SubSeq(cs, 1, n1) \o SubSeq(cs, fracStart, fracStart + n2 - 1),
          exp10 |-> exp - n2]
    ELSE [ok |-> FALSE]

\* the n3 digits of the exponent start at expStart; neg is its sign
ParseExponentDigits(cs, n1, fracStart, n2, neg, expStart, n3) ==
    DecimalParsed(cs, n1, fracStart, n2, n3 >= 1,
                  (IF neg THEN -1 ELSE 1)
                    * ExponentValue(SubSeq(cs, expStart, expStart + n3 - 1)),
                  expStart + n3)

\* the mantissa ends before position ePos
ParseExponent(cs, n1, fracStart, n2, ePos) ==
    IF ~(ePos <= Len(cs) /\ cs[ePos] \in {"e", "E"})
    THEN DecimalParsed(cs, n1, fracStart, n2, TRUE, 0, ePos)
    ELSE IF ePos + 1 <= Len(cs) /\ cs[ePos + 1] \in {"+", "-"}
    THEN ParseExponentDigits(cs, n1, fracStart, n2, cs[ePos + 1] = "-",
                             ePos + 2, DigitRun(cs, ePos + 2))
    ELSE ParseExponentDigits(cs, n1, fracStart, n2, FALSE, ePos + 1, DigitRun(cs, ePos + 1))

\* the fraction has n2 digits from fracStart on
ParseFraction(cs, n1, fracStart, n2) == ParseExponent(cs, n1, fracStart, n2, fracStart + n2)

\* the integer part has n1 digits
ParseMantissa(cs, n1) ==
    IF n1 + 1 <= Len(cs) /\ cs[n1 + 1] = "."
    THEN ParseFraction(cs, n1, n1 + 2, DigitRun(cs, n1 + 2))
    ELSE ParseFraction(cs, n1, n1 + 1, 0)

\* the unsigned decimal literal cs: [ok, digits, exp10] for digits * 10^exp10
ParseDecimal(cs) == ParseMantissa(cs, DigitRun(cs, 1))

FloatFromRatio(s, r) ==
    IF r.e >= 2047 THEN PyFloat(s, 2047, 0, 0) ELSE PyFloat(s, r.e, r.hi, r.lo)

\* the float of sign s and the magnitude of the int n < 2^31
SignedFloat(s, n) == [IntToFloat(n) EXCEPT !.s = s]

\* ds has no leading zero; a literal that writes an int of at most 9 digits
\* is converted as that int, any other as the ratio of two naturals
SignificantToFloat(s, ds, exp10) ==
    IF ds = <<>> THEN PyFloat(s, 0, 0, 0)
    ELSE IF exp10 >= 0 /\ Len(ds) + exp10 <= 9
    THEN SignedFloat(s, SmallValue(ds, 1, Len(ds)) * 10 ^ exp10)
    ELSE IF exp10 + Len(ds) > 310 THEN PyFloat(s, 2047, 0, 0)
    ELSE IF exp10 + Len(ds) < -330 THEN PyFloat(s, 0, 0, 0)
    ELSE FloatFromRatio(s, RoundRatio(BigTimesPow10(BigFromDigits(ds),
                                                    IF exp10 > 0 THEN exp10 ELSE 0),
                                      BigTimesPow10(<<1>>, IF exp10 < 0 THEN -exp10 ELSE 0)))

\* the number of zeros that ds ends with
TrailingZeros(ds) ==
    CHOOSE n \in 0..Len(ds) : /\ \A j \in (Len(ds) - n + 1)..Len(ds) : ds[j] = "0"
                              /\ n = Len(ds) \/ ds[Len(ds) - n] # "0"

\* ds * 10^exp10 without the n last digits of ds, which are zeros
WithoutZeros(s, ds, exp10, n) == SignificantToFloat(s, SubSeq(ds, 1, Len(ds) - n), exp10 + n)

\* ds has no leading zero; the zeros that end its fraction are dropped
Trimmed(s, ds, exp10) ==
    IF exp10 >= 0 THEN SignificantToFloat(s, ds, exp10)
    ELSE IF TrailingZeros(ds) <= -exp10 THEN WithoutZeros(s, ds, exp10, TrailingZeros(ds))
    ELSE WithoutZeros(s, ds, exp10, -exp10)

DecimalToFloat(s, digits, exp10) == Trimmed(s, StripZeros(digits), exp10)

ParsedToFloat(s, dec) ==
    IF ~dec.ok
    THEN Raise("ValueError", <<Text("could not convert string to float")>>)
    ELSE [ok |-> TRUE, v |-> DecimalToFloat(s, dec.digits, dec.exp10)]

\* the literal after its sign: s is the sign bit, body the rest
UnsignedToFloat(s, body) ==
    IF [i \in DOMAIN body |-> Lower(body[i])]
          \in {<<"i", "n", "f">>, <<"i", "n", "f", "i", "n", "i", "t", "y">>}
    THEN [ok |-> TRUE, v |-> PyFloat(s, 2047, 0, 0)]
    ELSE IF [i \in DOMAIN body |-> Lower(body[i])] = <<"n", "a", "n">>
    THEN [ok |-> TRUE, v |-> PyFloat(s, 2047, Pow2(22), 0)]
    ELSE ParsedToFloat(s, ParseDecimal(body))

\* plain is the stripped string without its underscores
SignedToFloat(plain) ==
    IF plain # <<>> /\ Head(plain) = "-" THEN UnsignedToFloat(1, Tail(plain))
    ELSE IF plain # <<>> /\ Head(plain) = "+" THEN UnsignedToFloat(0, Tail(plain))
    ELSE UnsignedToFloat(0, plain)

StrippedToFloat(stripped) ==
    IF ~UnderscoresOk(stripped)
    THEN Raise("ValueError", <<Text("could not convert string to float")>>)
    ELSE SignedToFloat(SelectSeq(stripped, NotUnderscore))

StrToFloat(cs) == StrippedToFloat(StripRight(StripLeft(cs)))

float(x) ==
    CASE x.t = "float" -> [ok |-> TRUE, v |-> x]
      [] x.t = "int" /\ "n" \in DOMAIN x -> [ok |-> TRUE, v |-> IntToFloat(x.n)]
      [] x.t = "int" /\ "n" \notin DOMAIN x -> BigIntToFloat(x.neg, x.digits)
      [] x.t = "bool" -> [ok |-> TRUE, v |-> IntToFloat(IF x.b THEN 1 ELSE 0)]
      [] x.t = "str" -> StrToFloat(x.cs)
      [] OTHER -> Raise("TypeError", <<Text("float() argument must be a string or a real number")>>)

(***************************************************************************)
(* struct.pack("<f", x): binary64 -> binary32, round to nearest even, then *)
(* four little-endian bytes.  A finite value that rounds to infinity       *)
(* raises OverflowError.                                                   *)
(***************************************************************************)
\* a binary32 as [s, e, m]: sign, biased exponent 0..255, 23-bit fraction
F32(s, e, m) == [s |-> s, e |-> e, m |-> m]

\* whether the bits below the cut round the kept part up (ties to even)
RoundsUp(kept, rem, half, sticky) ==
    \/ rem > half
    \/ rem = half /\ sticky
    \/ rem = half /\ ~sticky /\ kept % 2 = 1

ToFloat32(x) ==
    LET e32 == x.e - 1023 + 127
    IN  IF x.e = 2047
        THEN \* infinity, or NaN (the fraction's top bits are kept)
             \* and a signalling NaN is made quiet)
             [ok |-> TRUE,
              f |-> F32(x.s, 255, IF x.hi = 0 /\ x.lo = 0 THEN 0
                                  ELSE IF x.hi >= Pow2(22) THEN x.hi
                                  ELSE x.hi + Pow2(22))]
        ELSE IF x.e = 0
        THEN \* zero and the binary64 subnormals
             [ok |-> TRUE, f |-> F32(x.s, 0, 0)]
        ELSE IF e32 >= 1
        THEN LET up == RoundsUp(x.hi, x.lo, Pow2(28), FALSE)
                 m1 == IF up THEN x.hi + 1 ELSE x.hi
                 e1 == IF m1 = Pow2(23) THEN e32 + 1 ELSE e32
                 m2 == IF m1 = Pow2(23) THEN 0 ELSE m1
             IN  IF e1 >= 255
                 THEN Raise("OverflowError", <<Text("float too large to pack with f format")>>)
                 ELSE [ok |-> TRUE, f |-> F32(x.s, e1, m2)]
        ELSE IF e32 < -24
        THEN [ok |-> TRUE, f |-> F32(x.s, 0, 0)]
        ELSE \* binary32 subnormal: shift the 24-bit significand right by k
             LET k == 1 - e32
                 sig == Pow2(23) + x.hi
                 q == sig \div Pow2(k)
                 r == sig % Pow2(k)
                 up == RoundsUp(q, r, Pow2(k - 1), x.lo > 0)
                 m1 == IF up THEN q + 1 ELSE q
             IN  IF m1 = Pow2(23)
                 THEN [ok |-> TRUE, f |-> F32(x.s, 1, 0)]
                 ELSE [ok |-> TRUE, f |-> F32(x.s, 0, m1)]

\* the four bytes of a binary32, least significant first
Float32Bytes(f) ==
    << f.m % 256,
       (f.m \div 256) % 256,
       (f.e % 2) * 128 + f.m \div 65536,
       f.s * 128 + f.e \div 2 >>

\* the four bytes of an unsigned 32-bit integer, least significant first
UInt32Bytes(n) ==
    << n % 256, (n \div 256) % 256, (n \div 65536) % 256, (n \div 16777216) % 256 >>

\* the bytes of first followed by those of rest, or the exception of the
\* first of the two that raised
Joined(first, rest) ==
    IF ~first.ok THEN first
    ELSE IF ~rest.ok THEN rest
    ELSE [ok |-> TRUE, bytes |-> first.bytes \o rest.bytes]

\* the bytes of a value converted to f, or the exception of the conversion
PackOne(f) == IF ~f.ok THEN f ELSE [ok |-> TRUE, bytes |-> Float32Bytes(f.f)]

RECURSIVE PackRange(_, _, _)
\* values[lo..hi] packed in order
PackRange(values, lo, hi) ==
    IF lo = hi THEN PackOne(ToFloat32(values[lo]))
    ELSE Joined(PackRange(values, lo, (lo + hi) \div 2),
                PackRange(values, (lo + hi) \div 2 + 1, hi))

\* struct.pack("<f...f", *values): the values in order, the first overflow raises
PackFloats(values) ==
    IF Len(values) = 0 THEN [ok |-> TRUE, bytes |-> <<>>]
    ELSE PackRange(values, 1, Len(values))

(***************************************************************************)
(* Binary format constants.                                                *)
(***************************************************************************)
\* b"GAMETSPP"
MAGIC == <<71, 65, 77, 69, 84, 83, 80, 80>>

\* struct's "8s": exactly 8 bytes, truncated or padded with zero bytes
Pack8s(b) == [i \in 1..8 |-> IF i <= Len(b) THEN b[i] ELSE 0]

\* variant: the data size field repeats the file size
HEADER_DataSize240 ==
    UInt32Bytes(240) \o UInt32Bytes(1) \o UInt32Bytes(52) \o Pack8s(MAGIC) \o UInt32Bytes(240)

\* variant: the magic tag comes first
HEADER_MagicFirst ==
    Pack8s(MAGIC) \o UInt32Bytes(240) \o UInt32Bytes(1) \o UInt32Bytes(52) \o UInt32Bytes(236)

\* struct.pack("<III8sI", 240, 1, 52, b"GAMETSPP", 236)
HEADER ==
    UInt32Bytes(240) \o UInt32Bytes(1) \o UInt32Bytes(52) \o Pack8s(MAGIC) \o UInt32Bytes(236)

\* bytes.fromhex("8fc2353f 00000000 ... 7838504c 08000000")
FOOTER ==
    << 143, 194, 53, 63,   0, 0, 0, 0,     0, 0, 0, 0,     51, 51, 67, 65,
       0, 0, 0, 0,         0, 0, 0, 0,     0, 0, 0, 0,     0, 0, 0, 64,
       0, 0, 0, 0,         0, 0, 32, 65,   0, 0, 128, 63,  0, 0, 0, 191,
       0, 0, 0, 0,         0, 0, 128, 63,  0, 0, 0, 0,     0, 0, 128, 63,
       0, 0, 112, 66,      0, 0, 0, 0,     0, 0, 112, 66,  0, 0, 128, 63,
       120, 56, 80, 76,    8, 0, 0, 0 >>

\* variant: frequency and gain change places
BAND_FIELD_ORDER_Swapped == <<"q", "enabled", "gain", "frequency">>

BAND_FIELD_ORDER == <<"q", "enabled", "frequency", "gain">>

(***************************************************************************)
(* pack_band and build_preset.                                             *)
(***************************************************************************)
\* variant: the gain is not packed ("<fff")
pack_band_NoGain(q, enabled, frequency, gain) ==
    Frame(PackFloats(<<q, enabled, frequency>>), "pack_band")

pack_band(q, enabled, frequency, gain) ==
    LET fields == [q |-> q, enabled |-> enabled, frequency |-> frequency, gain |-> gain]
        values == [i \in 1..Len(BAND_FIELD_ORDER) |-> fields[BAND_FIELD_ORDER[i]]]
    IN  Frame(PackFloats(values), "pack_band")

\* band.get(key, default)
DictGet(d, key, default) == IF key \in DOMAIN d THEN d[key] ELSE default

\* variant: 0.0 if not band.get("enabled", True) else 1.0
EnabledFlag_Truthy(band) ==
    IF DictGet(band, "enabled", PyBool(TRUE)) \in {PyBool(FALSE), PyInt(0), PyNone, F_0_0}
    THEN F_0_0 ELSE F_1_0

\* 0.0 if band.get("enabled") is False else 1.0
EnabledFlag(band) ==
    IF DictGet(band, "enabled", PyNone) = PyBool(FALSE) THEN F_0_0 ELSE F_1_0

\* pack_band(q, enabled, frequency, gain), once gain = float(band.get("gain", 0.0))
PackWithGain(band, q, frequency, gain) ==
    IF ~gain.ok THEN gain
    ELSE pack_band(q, EnabledFlag(band), frequency, gain.v)

\* frequency = float(band["frequency"]), then the gain
PackWithFrequency(band, q, frequency) ==
    IF ~frequency.ok THEN frequency
    ELSE PackWithGain(band, q, frequency.v, float(DictGet(band, "gain", F_0_0)))

\* q = float(band.get("q", DEFAULT_Q)), then the frequency
PackWithQ(band, q) ==
    IF ~q.ok THEN q
    ELSE IF "frequency" \notin DOMAIN band THEN Raise("KeyError", <<Text("frequency")>>)
    ELSE PackWithFrequency(band, q.v, float(band["frequency"]))

\* one iteration of build_preset's loop: the 16 bytes of a band, or the exception
EncodeBand(band) == PackWithQ(band, float(DictGet(band, "q", DEFAULT_Q)))

RECURSIVE BandDataIn(_, _, _)
\* band_data after the iterations lo..hi of the loop over bands_config; the
\* first exception ends the loop
BandDataIn(bands_config, lo, hi) ==
    IF lo = hi THEN EncodeBand(bands_config[lo])
    ELSE Joined(BandDataIn(bands_config, lo, (lo + hi) \div 2),
                BandDataIn(bands_config, (lo + hi) \div 2 + 1, hi))

\* band_data after the loop over bands_config
BandData(bands_config) ==
    IF Len(bands_config) = 0 THEN [ok |-> TRUE, bytes |-> <<>>]
    ELSE BandDataIn(bands_config, 1, Len(bands_config))

\* variant: the footer is put before the band records
Assemble_FooterFirst(band_data) == HEADER \o FOOTER \o band_data

\* preset = HEADER + band_data + FOOTER
Assemble(band_data) == HEADER \o band_data \o FOOTER

\* assert len(preset) == 240, f"Preset size mismatch: {len(preset)} != 240"
\* return preset
Asserted(preset) ==
    IF Len(preset) # 240
    THEN Raise("AssertionError",
               <<Text("Preset size mismatch"), PyInt(Len(preset)), PyInt(240)>>)
    ELSE [ok |-> TRUE, bytes |-> preset]

\* variant: whatever was assembled is returned
Unasserted(preset) == [ok |-> TRUE, bytes |-> preset]

\* variant: the statements after the loop without the assert
AssembledUnasserted(band_data) ==
    IF ~band_data.ok THEN band_data ELSE Unasserted(Assemble(band_data.bytes))

\* variant: no length check
build_preset_NoAssert(bands_config) ==
    Frame(AssembledUnasserted(BandData(bands_config)), "build_preset")

\* the statements of build_preset after the loop left band_data
Assembled(band_data) ==
    IF ~band_data.ok THEN band_data ELSE Asserted(Assemble(band_data.bytes))

build_preset(bands_config) == Frame(Assembled(BandData(bands_config)), "build_preset")

(***************************************************************************)
(* Inputs: the band dicts, band lists and device lists the model explores. *)
(***************************************************************************)
Absent == [t |-> "absent"]

\* the dict with the given fields, a field that is Absent being no key of it
BandDict(q, enabled, frequency, gain) ==
    LET all == [q |-> q, enabled |-> enabled, frequency |-> frequency, gain |-> gain]
    IN  [k \in {f \in DOMAIN all : all[f] # Absent} |-> all[k]]

CoreBands ==
    { BandDict(q, en, fr, g) :
        q \in {Absent, F_1_0, PyStr(<<"x">>), F_1e39},
        en \in {Absent, PyBool(TRUE), PyBool(FALSE), PyInt(0)},
        fr \in {Absent, F_2_0, PyInt(100), PyStr(<<"8", "0">>), F_max_round},
        g \in {Absent, F_3_0, F_m3_0, PyNone} }

EdgeBands ==
    { BandDict(q, en, fr, g) :
        q \in {F_tie_odd, F_0_1},
        en \in {PyNone, PyStr(<<"f", "a", "l", "s", "e">>)},
        fr \in {F_1em40, F_nan, PyInt(8000), PyStr(<<"1", "a">>)},
        g \in {F_inf, PyBool(TRUE), F_0_1, PyStr(<<" ", "-", "3", ".", "0">>)} }

BandSet == CoreBands \cup EdgeBands

\* {"frequency": 100, "gain": 0, "q": 0.71, "enabled": true}
GoodBand == BandDict(F_0_71, PyBool(TRUE), PyInt(100), PyInt(0))
\* {}
EmptyBand == BandDict(Absent, Absent, Absent, Absent)
\* {"frequency": 8000, "gain": -3, "q": 0.71, "enabled": false}
LowPassBand == BandDict(F_0_71, PyBool(FALSE), PyInt(8000), PyInt(-3))

\* n bands, all equal to filler except the one at position p
BandList(n, p, special, filler) == [i \in 1..n |-> IF i = p THEN special ELSE filler]

BandLists ==
    { BandList(n, p, s, GoodBand) : n \in 0..MaxBands, p \in 1..MaxBands, s \in BandSet }
    \cup
    { BandList(n, p, s, f) : n \in 0..MaxBands, p \in 1..MaxBands,
                             s \in {GoodBand, LowPassBand,
                                    BandDict(PyStr(<<"x">>), Absent, F_2_0, Absent),
                                    BandDict(Absent, PyInt(0), PyStr(<<"8", "0">>), Absent)},
                             f \in {EmptyBand, LowPassBand} }

\* a device dict; name or filename may be Absent
Device(name, filename, bands) ==
    LET strs == [name |-> name, filename |-> filename]
    IN  [k \in {"bands"} \cup {f \in DOMAIN strs : strs[f] # Absent} |->
            IF k = "bands" THEN bands ELSE strs[k]]

NameAB == PyStr(<<"a", " ", "b">>)
FileAB == PyStr(<<"a", "_", "b", ".", "p", "s", "t">>)
FileC == PyStr(<<"c", ".", "p", "s", "t">>)

\* the devices of the batches: two encodable, one a band short, a band without frequency
BatchDevices ==
    { Device(nf[1], nf[2], b) :
        nf \in {<<NameAB, Absent>>, <<NameAB, FileC>>, <<Absent, FileAB>>},
        b \in {BandList(8, 8, LowPassBand, GoodBand),
               BandList(8, 1, BandDict(Absent, Absent, F_2_0, Absent), GoodBand),
               BandList(7, 7, LowPassBand, GoodBand),
               BandList(8, 3, EmptyBand, GoodBand)} }

RECURSIVE SeqsUpTo(_, _)
\* the sequences over S of length at most n
SeqsUpTo(S, n) ==
    IF n = 0 THEN {<<>>}
    ELSE LET shorter == SeqsUpTo(S, n - 1)
         IN  shorter \cup {Append(q, x) : q \in shorter, x \in S}

TargetLists ==
    { <<Device(NameAB, Absent, b)>> : b \in BandLists } \cup SeqsUpTo(BatchDevices, MaxDevices)

(***************************************************************************)
(* main's generation loop and generate_preset.                             *)
(***************************************************************************)
\* exc when nothing was raised; an uncaught exception is recorded with the
\* function that raised it (the innermost frame of the traceback)
NoExc == [type |-> "", args |-> <<>>, where |-> ""]

\* str.replace(old, new) for a one-character old
Replace(cs, old, new) == [i \in 1..Len(cs) |-> IF cs[i] = old THEN new ELSE cs[i]]

PST == <<".", "p", "s", "t">>

\* open(path, "wb"): the file exists and is empty
Truncated(files, path) ==
    [p \in DOMAIN files \cup {path} |-> IF p = path THEN <<>> ELSE files[p]]

\* f.write(data) on the file just opened
Written(files, path, data) ==
    [p \in DOMAIN files |-> IF p = path THEN files[p] \o data ELSE files[p]]

Init ==
    /\ targets \in TargetLists
    /\ idx = 1
    /\ pc = IF targets = <<>> THEN "done" ELSE "build"
    /\ preset_data = <<>>
    /\ output_path = <<>>
    /\ exc = NoExc
    /\ fs = <<>>

device == targets[idx]

\* preset_data = build_preset(device["bands"])
Build ==
    /\ pc = "build"
    /\ \E r \in {build_preset(device["bands"])} :
           IF r.ok
           THEN /\ preset_data' = r.bytes
                /\ pc' = "filename"
                /\ exc' = exc
           ELSE /\ preset_data' = preset_data
                /\ pc' = "crashed"
                /\ exc' = r.exc
    /\ UNCHANGED <<targets, idx, output_path, fs>>

\* device.get("filename", device["name"].replace(" ", "_") + ".pst"), joined
\* to output_dir; the default is evaluated before get is called, so a device
\* without a name raises KeyError even when it has a filename
FilenameOf(d) ==
    IF "name" \notin DOMAIN d
    THEN Frame(Raise("KeyError", <<Text("name")>>), "generate_preset")
    ELSE [ok |-> TRUE,
          path |-> DictGet(d, "filename", PyStr(Replace(d["name"].cs, " ", "_") \o PST)).cs]

\* filename = device.get("filename", device["name"].replace(" ", "_") + ".pst")
\* output_path = os.path.join(output_dir, filename)
Filename ==
    /\ pc = "filename"
    /\ \E r \in {FilenameOf(device)} :
           IF ~r.ok
           THEN /\ pc' = "crashed"
                /\ exc' = r.exc
                /\ output_path' = output_path
           ELSE /\ output_path' = r.path
                /\ pc' = "open"
                /\ exc' = exc
    /\ UNCHANGED <<targets, idx, preset_data, fs>>

\* with open(output_path, "wb") as f:
Open ==
    /\ pc = "open"
    /\ fs' = Truncated(fs, output_path)
    /\ pc' = "write"
    /\ UNCHANGED <<targets, idx, preset_data, output_path, exc>>

\* f.write(preset_data), and the file is closed
Write ==
    /\ pc = "write"
    /\ fs' = Written(fs, output_path, preset_data)
    /\ pc' = "report"
    /\ UNCHANGED <<targets, idx, preset_data, output_path, exc>>

\* main's summary line of the device (bands[0] and bands[7] are read), then
\* the next device or the end of the loop
Report ==
    /\ pc = "report"
    /\ LET bands == device["bands"]
       IN  IF Len(bands) < 8
           THEN /\ pc' = "crashed"
                /\ exc' = Frame(Raise("IndexError", <<Text("list index out of range")>>), "main").exc
                /\ idx' = idx
           ELSE IF "frequency" \notin DOMAIN bands[1] \/ "frequency" \notin DOMAIN bands[8]
           THEN /\ pc' = "crashed"
                /\ exc' = Frame(Raise("KeyError", <<Text("frequency")>>), "main").exc
                /\ idx' = idx
           ELSE /\ idx' = idx + 1
                /\ pc' = IF idx + 1 > Len(targets) THEN "done" ELSE "build"
                /\ exc' = exc
    /\ UNCHANGED <<targets, preset_data, output_path, fs>>

Next == Build \/ Filename \/ Open \/ Write \/ Report

Spec == Init /\ [][Next]_vars

(***************************************************************************)
(* Vocabulary of the properties: a reader of the file, written             *)
(* independently of the encoder.                                           *)
(***************************************************************************)
\* b[lo:hi]
Slice(b, lo, hi) == SubSeq(b, lo + 1, hi)

\* struct.unpack("<I", b4)[0]
UnpackUInt32(b4) == b4[1] + 256 * b4[2] + 65536 * b4[3] + 16777216 * b4[4]

\* the binary32 held by four little-endian bytes
UnpackFloat32(b4) ==
    F32(b4[4] \div 128,
        (b4[4] % 128) * 2 + b4[3] \div 128,
        b4[1] + 256 * b4[2] + 65536 * (b4[3] % 128))

\* struct.unpack("<f", b4)[0]: the Python float (binary64) equal to a binary32
Widen(f) ==
    IF f.e = 255 THEN PyFloat(f.s, 2047, f.m, 0)
    ELSE IF f.e = 0 /\ f.m = 0 THEN PyFloat(f.s, 0, 0, 0)
    ELSE IF f.e = 0
    THEN LET p == Log2Floor(f.m)
         IN  PyFloat(f.s, 1023 - 149 + p, (f.m - Pow2(p)) * Pow2(23 - p), 0)
    ELSE PyFloat(f.s, f.e - 127 + 1023, f.m, 0)

\* the four floats of a 16-byte band record, as Python floats
DecodeRecord(rec) == [k \in 1..4 |-> Widen(UnpackFloat32(Slice(rec, 4 * (k - 1), 4 * k)))]

\* the record of band i (0-based) in a preset
Record(preset, i) == Slice(preset, 24 + 16 * i, 40 + 16 * i)

\* the band list of the device the loop is at
bands_now == device["bands"]

\* build_preset has been called for the current device
Acted == pc \in {"filename", "open", "write", "report", "crashed"}

\* ... and raised: the exception came out of build_preset or of pack_band,
\* which it calls
EncodeFailed == pc = "crashed" /\ exc.where \in {"build_preset", "pack_band"}

\* ... and returned: preset_data is the encoding of the current device
EncodeOk == Acted /\ ~EncodeFailed

\* float() accepts x
Numeric(x) == float(x).ok

\* a binary64 that is NaN, infinite, or rounds to a finite binary32:
\* |v| < 2^128 - 2^103
FitsFloat32(v) ==
    \/ v.e = 2047
    \/ v.e < 1150
    \/ v.e = 1150 /\ (v.hi < Pow2(23) - 1 \/ v.lo < Pow2(28))

\* field key of the band is absent, or a value struct can pack as a float32
FieldPackable(band, key) ==
    key \in DOMAIN band => Numeric(band[key]) /\ FitsFloat32(float(band[key]).v)

IsLiteralFalse(band) ==
    /\ "enabled" \in DOMAIN band
    /\ band["enabled"].t = "bool"
    /\ band["enabled"].b = FALSE

(***************************************************************************)
(* C1.  As claimed: for 8 bands with a numerically convertible frequency   *)
(* each, build_preset returns 240 bytes whatever gain, q and enabled are.  *)
(***************************************************************************)
FrequencyConvertible(band) == "frequency" \in DOMAIN band /\ Numeric(band["frequency"])

\* C1 as claimed: any 8 bands with convertible frequencies are encoded to
\* 240 bytes, whatever the values of gain, q and enabled.
C1_AsClaimed ==
    (Acted /\ Len(bands_now) = 8 /\ \A i \in 1..8 : FrequencyConvertible(bands_now[i]))
        => (EncodeOk /\ Len(preset_data) = 240)

\* C1 amended: 8 bands, each with a frequency, whose frequency, gain and q
\* (where present) are accepted by float() and fit a float32, are encoded to
\* exactly 240 bytes, whatever enabled is and whether or not gain, q and
\* enabled are present.
C1_Length240 ==
    (/\ Acted
     /\ Len(bands_now) = 8
     /\ \A i \in 1..8 :
           /\ "frequency" \in DOMAIN bands_now[i]
           /\ FieldPackable(bands_now[i], "frequency")
           /\ FieldPackable(bands_now[i], "q")
           /\ FieldPackable(bands_now[i], "gain"))
        => (EncodeOk /\ Len(preset_data) = 240)

\* an encoded list with a band that has neither q nor gain and a non-boolean enabled
C1_Witness ==
    /\ EncodeOk
    /\ Len(bands_now) = 8
    /\ Len(preset_data) = 240
    /\ \E i \in 1..8 : /\ DOMAIN bands_now[i] = {"frequency", "enabled"}
                       /\ bands_now[i]["enabled"] = PyInt(0)
                       /\ bands_now[i]["frequency"].t = "str"

(***************************************************************************)
(* C2.                                                                     *)
(***************************************************************************)
\* C2 as claimed: a band list whose length is not 8 fails with a ShapeError,
\* an error other than the one of the length-240 self-check, and no bytes
\* are returned.
C2_ShapeError ==
    (Acted /\ Len(bands_now) # 8)
        => (EncodeFailed /\ exc.type = "ShapeError" /\ exc.type # "AssertionError")

(***************************************************************************)
(* C3.                                                                     *)
(***************************************************************************)
\* the binary32 a field of a band is stored as
Stored(x) == ToFloat32(float(x).v).f

\* C3: the 16 bytes at 24+16*i hold band i as four little-endian float32 in
\* the order q, enabled, frequency, gain; a band with q = 1.0, frequency = 2.0,
\* gain = 3.0 decodes to [1.0, 0.0 or 1.0, 2.0, 3.0].
C3_RecordLayout ==
    EncodeOk =>
        \A i \in 0..7 :
            LET band == bands_now[i + 1]
                rec == Record(preset_data, i)
                dec == DecodeRecord(rec)
            IN  /\ Len(rec) = 16
                /\ UnpackFloat32(Slice(rec, 0, 4)) = Stored(DictGet(band, "q", F_0_71))
                /\ dec[2] \in {F_0_0, F_1_0}
                /\ UnpackFloat32(Slice(rec, 8, 12)) = Stored(band["frequency"])
                /\ UnpackFloat32(Slice(rec, 12, 16)) = Stored(DictGet(band, "gain", F_0_0))
                /\ (/\ DictGet(band, "q", Absent) = F_1_0
                    /\ band["frequency"] = F_2_0
                    /\ DictGet(band, "gain", Absent) = F_3_0)
                       => (dec[1] = F_1_0 /\ dec[3] = F_2_0 /\ dec[4] = F_3_0)

\* the band q = 1.0, frequency = 2.0, gain = 3.0 encoded at a position after the first
C3_Witness ==
    /\ EncodeOk
    /\ \E i \in 2..8 : /\ DOMAIN bands_now[i] = {"q", "frequency", "gain"}
                       /\ bands_now[i]["q"] = F_1_0
                       /\ bands_now[i]["frequency"] = F_2_0
                       /\ bands_now[i]["gain"] = F_3_0
                       /\ DecodeRecord(Record(preset_data, i - 1)) = <<F_1_0, F_1_0, F_2_0, F_3_0>>

(***************************************************************************)
(* C4.                                                                     *)
(***************************************************************************)
\* C4: the second float of a band's record is 0.0 exactly when enabled is
\* the literal False, and 1.0 in every other case.
C4_EnabledToggle ==
    EncodeOk =>
        \A i \in 0..7 :
            DecodeRecord(Record(preset_data, i))[2] =
                IF IsLiteralFalse(bands_now[i + 1]) THEN F_0_0 ELSE F_1_0

\* an encoded list with enabled False in one band and the int 0 in another
C4_Witness ==
    /\ EncodeOk
    /\ \E i, j \in 1..8 :
          /\ IsLiteralFalse(bands_now[i])
          /\ DecodeRecord(Record(preset_data, i - 1))[2] = F_0_0
          /\ "enabled" \in DOMAIN bands_now[j] /\ bands_now[j]["enabled"] = PyInt(0)
          /\ DecodeRecord(Record(preset_data, j - 1))[2] = F_1_0

(***************************************************************************)
(* C5.                                                                     *)
(***************************************************************************)
\* the band with q = 1.0 and gain = 3.0 supplied where they are omitted
WithQAndGain(band) ==
    [k \in DOMAIN band \cup {"q", "gain"} |->
        IF k \in DOMAIN band THEN band[k] ELSE IF k = "q" THEN F_1_0 ELSE F_3_0]

OmitsQAndGain(band) == "q" \notin DOMAIN band /\ "gain" \notin DOMAIN band

\* the float32 nearest to 0.71 (bytes 8f c2 35 3f), and the Python float equal to it
Q32 == F32(0, 126, 3523215)
Q32AsFloat == PyFloat(0, 1022, 3523215, 0)

\* C5 as claimed: with gain and q omitted, decoding the record yields q = 0.71
\* and gain = 0.0.
C5_AsClaimed ==
    EncodeOk =>
        \A i \in 0..7 :
            OmitsQAndGain(bands_now[i + 1]) =>
                /\ DecodeRecord(Record(preset_data, i))[1] = F_0_71
                /\ DecodeRecord(Record(preset_data, i))[4] = F_0_0

\* C5 amended: with gain and q omitted, the first float of the record is the
\* float32 nearest to 0.71 (0x3F35C28F, which decodes to 0.7099999785423279, not
\* to 0.71), the fourth is 0.0, and the frequency and enabled fields are those of
\* the same band with q and gain supplied.
C5_Defaults ==
    EncodeOk =>
        \A i \in 0..7 :
            LET band == bands_now[i + 1]
                rec == Record(preset_data, i)
            IN  OmitsQAndGain(band) =>
                    /\ UnpackFloat32(Slice(rec, 0, 4)) = Q32
                    /\ DecodeRecord(rec)[1] = Q32AsFloat
                    /\ DecodeRecord(rec)[1] # F_0_71
                    /\ DecodeRecord(rec)[4] = F_0_0
                    /\ Slice(rec, 4, 12) = Slice(EncodeBand(WithQAndGain(band)).bytes, 4, 12)

\* an encoded band that has a frequency and an enabled flag but neither q nor gain
C5_Witness ==
    /\ EncodeOk
    /\ \E i \in 1..8 : /\ DOMAIN bands_now[i] = {"frequency", "enabled"}
                       /\ bands_now[i]["enabled"] = PyBool(FALSE)
                       /\ DecodeRecord(Record(preset_data, i - 1))[1] = Q32AsFloat

(***************************************************************************)
(* C6.                                                                     *)
(***************************************************************************)
\* C6: in every output the uint32 at 0 is 240, at 4 is 1, at 8 is 52, bytes
\* 12..20 are ASCII "GAMETSPP", and the uint32 at 20 is 236.
C6_HeaderFields ==
    EncodeOk =>
        /\ UnpackUInt32(Slice(preset_data, 0, 4)) = 240
        /\ UnpackUInt32(Slice(preset_data, 4, 8)) = 1
        /\ UnpackUInt32(Slice(preset_data, 8, 12)) = 52
        /\ Slice(preset_data, 12, 20) = <<71, 65, 77, 69, 84, 83, 80, 80>>
        /\ UnpackUInt32(Slice(preset_data, 20, 24)) = 236

\* an output whose first band is not the usual one
C6_Witness ==
    /\ EncodeOk
    /\ Len(preset_data) = 240
    /\ bands_now[1] # GoodBand
    /\ UnpackUInt32(Slice(preset_data, 20, 24)) = 236

(***************************************************************************)
(* C7.                                                                     *)
(***************************************************************************)
\* C7: bytes 152..240 of every output are the FOOTER constant, so the footers
\* of any two outputs (the one just built, the files written before) are equal.
C7_FooterConstant ==
    EncodeOk =>
        /\ Slice(preset_data, 152, 240) = FOOTER
        /\ Len(Slice(preset_data, 152, 240)) = 88
        /\ \A p \in DOMAIN fs :
              Len(fs[p]) = 240 => Slice(fs[p], 152, 240) = Slice(preset_data, 152, 240)

\* the second device is encoded and an earlier file holds other band records
C7_Witness ==
    /\ EncodeOk
    /\ idx = 2
    /\ \E p \in DOMAIN fs :
          /\ Len(fs[p]) = 240
          /\ Slice(fs[p], 24, 152) # Slice(preset_data, 24, 152)
          /\ Slice(fs[p], 152, 240) = Slice(preset_data, 152, 240)

(***************************************************************************)
(* C8.                                                                     *)
(***************************************************************************)
\* the position (0-based) of the first band without a frequency
FirstWithoutFrequency(bands) ==
    CHOOSE i \in 0..(Len(bands) - 1) :
        /\ "frequency" \notin DOMAIN bands[i + 1]
        /\ \A j \in 0..(i - 1) : "frequency" \in DOMAIN bands[j + 1]

\* C8 as claimed: 8 bands of which one has no frequency fail with the
\* missing-field error (the KeyError of the lookup), and the error identifies
\* the index of the first band without a frequency.
C8_MissingFieldIndex ==
    (/\ Acted
     /\ Len(bands_now) = 8
     /\ \E i \in 1..8 : "frequency" \notin DOMAIN bands_now[i])
        => /\ EncodeFailed
           /\ exc.type \in {"MissingFieldError", "KeyError"}
           /\ \E k \in DOMAIN exc.args : exc.args[k] = PyInt(FirstWithoutFrequency(bands_now))

(***************************************************************************)
(* C9.                                                                     *)
(***************************************************************************)
\* C9: a file is created or written only once build_preset has returned the
\* 240 bytes of the device; a step in which encoding fails changes no file,
\* and the files written for earlier devices hold 240 bytes; the only file
\* that is ever shorter is the one just opened, before its single write.
C9_NoPartialFiles ==
    [][ /\ fs' # fs => (EncodeOk /\ Len(preset_data) = 240 /\ pc \in {"open", "write"})
        /\ EncodeFailed' => (fs' = fs /\ \A p \in DOMAIN fs' : Len(fs'[p]) = 240)
        /\ \A p \in DOMAIN fs' :
              \/ Len(fs'[p]) = 240
              \/ pc' = "write" /\ p = output_path' /\ fs'[p] = <<>> ]_vars

\* the second device of a batch failed to encode: the first device's file is
\* complete and there is no file for the second
C9_Witness ==
    /\ EncodeFailed
    /\ idx = 2
    /\ DOMAIN fs # {}
    /\ \A p \in DOMAIN fs : Len(fs[p]) = 240
    /\ FilenameOf(device).ok
    /\ FilenameOf(device).path \notin DOMAIN fs

(***************************************************************************)
(* C10.                                                                    *)
(***************************************************************************)
RECURSIVE Records(_)
\* the band records of a list of bands, one after the other
Records(bands) ==
    IF bands = <<>> THEN <<>> ELSE EncodeBand(Head(bands)).bytes \o Records(Tail(bands))

\* C10 as claimed: the header before the first band record is 20 bytes long,
\* the output being Header(20) + 8 records of 16 bytes + the 88-byte footer.
C10_AsClaimed ==
    EncodeOk =>
        /\ Slice(preset_data, 20, 36) = EncodeBand(bands_now[1]).bytes
        /\ Len(preset_data) = 20 + 8 * 16 + 88

\* C10 amended: the header is a fixed preamble of exactly 24 bytes (uint32 240,
\* 1, 52, the 8-byte tag "GAMETSPP", uint32 236), and the output is
\* Header(24) + 8 records of 16 bytes + the 88-byte footer, 240 bytes in all.
C10_Header24 ==
    EncodeOk =>
        /\ Slice(preset_data, 0, 24) =
              << 240, 0, 0, 0,  1, 0, 0, 0,  52, 0, 0, 0,
                 71, 65, 77, 69, 84, 83, 80, 80,  236, 0, 0, 0 >>
        /\ Slice(preset_data, 24, 152) = Records(bands_now)
        /\ Len(Slice(preset_data, 152, 240)) = 88
        /\ Len(preset_data) = 24 + 8 * 16 + 88

\* an output whose first record, at offset 24, is not the usual band's
C10_Witness ==
    /\ EncodeOk
    /\ bands_now[1] = LowPassBand
    /\ Slice(preset_data, 24, 40) = EncodeBand(LowPassBand).bytes
    /\ Slice(preset_data, 20, 24) = <<236, 0, 0, 0>>

====
